---- MODULE Spec2Model ----
(***************************************************************************)
(* Formula front end of ss/formula.js: the tokenizer (a generator over the *)
(* module-level global regular expression LEXER) and the recursive-descent *)
(* parser (class Parser), as a state machine.                              *)
(*                                                                         *)
(* Strings are sequences of one-character strings; offsets are 0-based as  *)
(* in the source (charAt(i) is code[i+1]).  A parse call is stepped one    *)
(* consume/expect call at a time; the call stack of the grammar methods is *)
(* the variable stack, each frame holding the method, the source line it   *)
(* is at, and its locals.                                                  *)
(***************************************************************************)
EXTENDS Integers, Sequences, FiniteSets, TLC

VARIABLES
    lastIndex,       \* LEXER.lastIndex, shared by every token stream
    code,            \* the string given to the running (or last) parse call
    gen,             \* the generator object made by tokenize(code)
    cur,             \* Parser.cur, the lookahead token
    attemptedTypes,  \* Parser.attemptedTypes, in insertion order
    stack,           \* frames of the grammar methods being executed
    outcome,         \* what the last finished parse call returned or threw
    tokens,          \* history: the tokens the generator has yielded
    passed,          \* history: kinds given to consume since the last advance
    target,          \* history: the string whose outcomes are collected
    seen,            \* history: the outcomes of the parse calls on target
    prevKinds,       \* history: outcome kinds of the calls finished so far
    entryLastIndex,  \* history: LEXER.lastIndex when the parse call began
    inputs,          \* the strings parse may be called with
    form,            \* how the input was written: leaves, operators, arguments
    streams          \* token streams advanced directly by a caller of tokenize

vars == <<lastIndex, code, gen, cur, attemptedTypes, stack, outcome, tokens,
          passed, target, seen, prevKinds, entryLastIndex, inputs, form,
          streams>>

-----------------------------------------------------------------------------
(* Characters *)

Lower == {"a","b","c","d","e","f","g","h","i","j","k","l","m",
          "n","o","p","q","r","s","t","u","v","w","x","y","z"}
Upper == {"A","B","C","D","E","F","G","H","I","J","K","L","M",
          "N","O","P","Q","R","S","T","U","V","W","X","Y","Z"}
Digit == {"0","1","2","3","4","5","6","7","8","9"}
Letter == Lower \cup Upper
\* [a-zA-Z0-9:-]
ValueChar == Letter \cup Digit \cup {":", "-"}
\* \s, as far as the inputs use it
Space == {" ", "\t", "\n"}
Quote == "\""

Min(S) == CHOOSE x \in S : \A y \in S : x <= y

\* String.prototype.charAt: the empty string outside the string
CharAt(s, i) == IF i >= 0 /\ i < Len(s) THEN <<s[i + 1]>> ELSE <<>>

-----------------------------------------------------------------------------
(* LEXER: the alternatives of the regular expression, in its order *)

LEXER_valueFirst == <<"lparen", "rparen", "plus", "value", "minus", "quoted",
                      "times", "divided", "comma", "whitespace">>
LEXER == <<"lparen", "rparen", "plus", "minus", "value", "quoted",
           "times", "divided", "comma", "whitespace">>

\* the number of characters from offset i on that all belong to S
RECURSIVE Run(_, _, _)
Run(s, i, S) == IF i < Len(s) /\ s[i + 1] \in S THEN 1 + Run(s, i + 1, S) ELSE 0

\* the characters of s that [^"] accepts
NotQuote(s) == {s[k] : k \in DOMAIN s} \ {Quote}

\* the length of the match of one named group at offset i, 0 when it does not match
GroupLen(group, s, i) ==
    LET c == s[i + 1]
        one(ch) == IF c = ch THEN 1 ELSE 0
    IN CASE group = "lparen" -> one("(")
         [] group = "rparen" -> one(")")
         [] group = "plus" -> one("+")
         [] group = "minus" -> one("-")
         [] group = "value" -> Run(s, i, ValueChar)
         [] group = "quoted" ->
               IF c # Quote THEN 0
               ELSE LET n == Run(s, i + 1, NotQuote(s))
                    IN IF n >= 1 /\ i + 1 + n < Len(s) THEN n + 2 ELSE 0
         [] group = "times" -> one("*")
         [] group = "divided" -> one("/")
         [] group = "comma" -> one(",")
         [] group = "whitespace" -> Run(s, i, Space)

NoMatch == [found |-> FALSE, index |-> 0, type |-> "none", text |-> <<>>]

\* the match of LEXER anchored at offset i: the first alternative that matches,
\* which is also the one non-null entry of m.groups the loop of lines 52-58 finds
\* (hits: the alternatives that match at i, each with the length of its match)
MatchGroup(s, i, h) ==
    [found |-> TRUE, index |-> i, type |-> LEXER[h[1]],
     text |-> SubSeq(s, i + 1, i + h[2])]
MatchFirst(s, i, hits) ==
    IF hits = {} THEN NoMatch
    ELSE MatchGroup(s, i, CHOOSE h \in hits : \A o \in hits : h[1] <= o[1])
MatchAt(s, i) ==
    MatchFirst(s, i, {h \in {<<k, GroupLen(LEXER[k], s, i)>> : k \in 1..Len(LEXER)} :
                         h[2] > 0})

\* LEXER.exec(s) with the flag g: the first match at or after lastIndex, which
\* it moves past the match; no match (or lastIndex beyond the end) resets it to 0
execFound(m) == [m |-> m, lastIndex |-> m.index + Len(m.text)]
execFrom(s, starts) ==
    IF starts = {} THEN [m |-> NoMatch, lastIndex |-> 0]
    ELSE execFound(MatchAt(s, Min(starts)))
exec(s, li) == execFrom(s, {i \in li..(Len(s) - 1) : MatchAt(s, i).found})

FUNCTION_NAME_alnum(name) == name # <<>> /\ \A k \in DOMAIN name : name[k] \in Letter \cup Digit
\* /^[a-zA-Z]+$/.test(name)
FUNCTION_NAME(name) == name # <<>> /\ \A k \in DOMAIN name : name[k] \in Letter

TOKEN_TYPES ==
    [lparen |-> "(", rparen |-> ")", plus |-> "+", minus |-> "-",
     value |-> "a literal value", quoted |-> "a quoted string",
     times |-> "*", divided |-> "/", comma |-> ",",
     whitespace |-> "whitespace", eof |-> "[end of string]"]

-----------------------------------------------------------------------------
(* tokenize: the generator *)

EofToken == [type |-> "eof", text |-> <<>>]

\* the generator object before its first next()
NewGen == [state |-> "suspendedStart", expectedNextToken |-> 0, text |-> <<>>]

tokenize_reset_kept(li) == li
\* line 45: LEXER.lastIndex = 0
tokenize_reset(li) == 0

IndexMismatch_never(m, expectedNextToken) == FALSE
\* line 47: m.index != expectedNextToken
IndexMismatch(m, expectedNextToken) == m.index # expectedNextToken

\* line 65: expectedNextToken != code.length
Leftover(s, expectedNextToken) == expectedNextToken # Len(s)

GapChar_matched(s, m, expectedNextToken) == CharAt(s, m.index)
\* line 48: code.charAt(expectedNextToken)
GapChar(s, m, expectedNextToken) == CharAt(s, expectedNextToken)

\* the generator once it has thrown or returned
Closed(e) == [state |-> "closed", expectedNextToken |-> e, text |-> <<>>]

\* lines 46-67 with the result x of LEXER.exec(code), expectedNextToken = e
tokenize_loop(s, e, x) ==
    IF x.m.found
    THEN IF IndexMismatch(x.m, e)
         THEN [kind |-> "throw", gen |-> Closed(e), lastIndex |-> x.lastIndex,
               token |-> EofToken,
               msg |-> <<"Unexpected token ">> \o GapChar(s, x.m, e)]
         ELSE [kind |-> "yield",
               gen |-> [state |-> "suspendedYield", expectedNextToken |-> e,
                        text |-> x.m.text],
               lastIndex |-> x.lastIndex,
               token |-> [type |-> x.m.type, text |-> x.m.text],
               msg |-> <<>>]
    ELSE IF Leftover(s, e)
    THEN [kind |-> "throw", gen |-> Closed(e), lastIndex |-> x.lastIndex,
          token |-> EofToken,
          msg |-> <<"Unexpected token end ">> \o CharAt(s, e)]
    ELSE [kind |-> "done", gen |-> Closed(e), lastIndex |-> x.lastIndex,
          token |-> EofToken, msg |-> <<>>]

\* One next() of the generator g over s with LEXER.lastIndex = li.  A first
\* next() runs lines 43-45; a later one resumes after the yield of line 62
\* with line 63.  Then the loop runs to the next yield, throw or return.  A
\* generator that has thrown or returned answers done.
tokenize_next(g, s, li) ==
    IF g.state = "closed"
    THEN [kind |-> "done", gen |-> g, lastIndex |-> li, token |-> EofToken,
          msg |-> <<>>]
    ELSE IF g.state = "suspendedStart"
    THEN tokenize_loop(s, 0, exec(s, tokenize_reset(li)))
    ELSE tokenize_loop(s, g.expectedNextToken + Len(g.text), exec(s, li))

-----------------------------------------------------------------------------
(* Expression trees: a leaf is a string, an application is an array whose  *)
(* first element is the operator or the function name.  Both are given the *)
(* same record shape; kind "list" is the plain array arglist returns.      *)

Leaf(text) == [kind |-> "leaf", text |-> text, args |-> <<>>]
Node(head, args) == [kind |-> "app", text |-> head, args |-> args]
List(args) == [kind |-> "list", text |-> <<>>, args |-> args]
NoTree == [kind |-> "none", text |-> <<>>, args |-> <<>>]

BinNode_swapped(op, tm, right) == Node(<<op>>, <<right, tm>>)
\* lines 127, 130, 142, 145: [op, tm, <right operand>]
BinNode(op, tm, right) == Node(<<op>>, <<tm, right>>)

\* line 171: tm.text.replace(/(^"|"$)/g, '')
StripQuotes(text) ==
    LET a == IF text # <<>> /\ Head(text) = Quote THEN Tail(text) ELSE text
    IN IF a # <<>> /\ a[Len(a)] = Quote THEN SubSeq(a, 1, Len(a) - 1) ELSE a

\* what a parse call gives back: the tree it returns or the Error it throws
NoOutcome == [kind |-> "none", tree |-> NoTree, msg |-> <<>>]
Returned(tm) == [kind |-> "tree", tree |-> tm, msg |-> <<>>]
Thrown(kind, msg) == [kind |-> kind, tree |-> NoTree, msg |-> msg]

-----------------------------------------------------------------------------
(* Parser: the lookahead cursor *)

\* this.cur before the constructor's advance() has assigned it
Undefined == [type |-> "undefined", text |-> <<>>]

AddType_dropped(types, type) == types
\* line 96: this.attemptedTypes.add(type), a Set in insertion order
AddType(types, type) ==
    IF \E k \in DOMAIN types : types[k] = type THEN types ELSE Append(types, type)

\* line 82: this.attemptedTypes = new Set()
ClearTypes(types) == <<>>

\* the tokens an advance() pulled, the skipped whitespace first
Pulled(tok, r) == [r EXCEPT !.toks = <<tok>> \o r.toks]

\* advance(), lines 80-89, on the generator g over s: n is what next() gave;
\* the tokens pulled are toks; a throw of the generator leaves cur and
\* attemptedTypes as they were when it happened
RECURSIVE advance(_, _, _, _, _)
advance_got(n, s, cur0, types0) ==
    IF n.kind = "throw"
    THEN [threw |-> TRUE, msg |-> n.msg, gen |-> n.gen, lastIndex |-> n.lastIndex,
          cur |-> cur0, attemptedTypes |-> types0, toks |-> <<>>]
    ELSE IF n.kind = "done"
    THEN [threw |-> FALSE, msg |-> <<>>, gen |-> n.gen, lastIndex |-> n.lastIndex,
          cur |-> EofToken, attemptedTypes |-> ClearTypes(types0), toks |-> <<>>]
    ELSE IF n.token.type = "whitespace"
    THEN Pulled(n.token, advance(n.gen, s, n.lastIndex, n.token, ClearTypes(types0)))
    ELSE [threw |-> FALSE, msg |-> <<>>, gen |-> n.gen, lastIndex |-> n.lastIndex,
          cur |-> n.token, attemptedTypes |-> ClearTypes(types0),
          toks |-> <<n.token>>]
advance(g, s, li, cur0, types0) == advance_got(tokenize_next(g, s, li), s, cur0, types0)

\* consume(type), lines 90-98: matched with the token consumed (a is what the
\* advance() did), or not matched with type recorded
consume_matched(tok, a) ==
    [matched |-> TRUE, tok |-> tok, threw |-> a.threw, msg |-> a.msg,
     gen |-> a.gen, lastIndex |-> a.lastIndex, cur |-> a.cur,
     attemptedTypes |-> a.attemptedTypes, toks |-> a.toks]
consume(type) ==
    IF cur.type = type
    THEN consume_matched(cur, advance(gen, code, lastIndex, cur, attemptedTypes))
    ELSE [matched |-> FALSE, tok |-> Undefined, threw |-> FALSE, msg |-> <<>>,
          gen |-> gen, lastIndex |-> lastIndex, cur |-> cur,
          attemptedTypes |-> AddType(attemptedTypes, type), toks |-> <<>>]

\* [...].join(', ')
RECURSIVE Join(_)
Join(parts) ==
    IF parts = <<>> THEN <<>>
    ELSE IF Len(parts) = 1 THEN <<parts[1]>>
    ELSE <<parts[1], ", ">> \o Join(Tail(parts))

\* throwUnexpectedToken(), lines 104-114: the message of the Error
UnexpectedTokenMsg(types, tok) ==
    <<"Expected one of: ">>
    \o Join([k \in DOMAIN types |-> TOKEN_TYPES[types[k]]])
    \o <<"; got ">>
    \o (IF tok.type = "eof" THEN <<TOKEN_TYPES.eof>>
        ELSE <<"'">> \o tok.text \o <<"'">>)

\* line 160: `${name} is not a valid function name`
NameErrorMsg(name) == name \o <<" is not a valid function name">>

-----------------------------------------------------------------------------
(* Parser: the grammar methods.  A frame is at the source line it executes *)
(* next, or at the line of the call it waits in.                           *)

Frame(fn, line) == [fn |-> fn, line |-> line, tm |-> NoTree, name |-> <<>>]

Top == stack[Len(stack)]
At(fn, line) == stack # <<>> /\ Top.fn = fn /\ Top.line = line
SetTop(f) == [stack EXCEPT ![Len(stack)] = f]
Pop == SubSeq(stack, 1, Len(stack) - 1)

\* entering a method runs it to its first consume: factor() starts at line
\* 154, summand() calls factor() at once (139), sum() calls summand() (124),
\* expr() is sum() (121), arglist() and toplevel() call expr() (181, 116)
factor(stk) == Append(stk, Frame("factor", 154))
summand(stk) == factor(Append(stk, Frame("summand", 139)))
sum(stk) == summand(Append(stk, Frame("sum", 124)))
expr(stk) == sum(stk)
arglist(stk) == expr(Append(stk, Frame("arglist", 181)))
toplevel(stk) == expr(Append(stk, Frame("toplevel", 116)))

\* the caller's frame once the call it waits in has returned v
Resume(f, v) ==
    CASE f.fn = "toplevel" /\ f.line = 116 -> [f EXCEPT !.tm = v, !.line = 117]
      [] f.fn = "sum" /\ f.line = 124 -> [f EXCEPT !.tm = v, !.line = 126]
      [] f.fn = "sum" /\ f.line = 127 ->
            [f EXCEPT !.tm = BinNode("+", f.tm, v), !.line = 126]
      [] f.fn = "sum" /\ f.line = 130 ->
            [f EXCEPT !.tm = BinNode("-", f.tm, v), !.line = 126]
      [] f.fn = "summand" /\ f.line = 139 -> [f EXCEPT !.tm = v, !.line = 141]
      [] f.fn = "summand" /\ f.line = 142 ->
            [f EXCEPT !.tm = BinNode("*", f.tm, v), !.line = 141]
      [] f.fn = "summand" /\ f.line = 145 ->
            [f EXCEPT !.tm = BinNode("/", f.tm, v), !.line = 141]
      [] f.fn = "factor" /\ f.line = 162 -> [f EXCEPT !.tm = v, !.line = 163]
      [] f.fn = "factor" /\ f.line = 174 -> [f EXCEPT !.tm = v, !.line = 175]
      [] f.fn = "arglist" /\ f.line = 181 -> [f EXCEPT !.tm = List(<<v>>), !.line = 182]

\* `return v` of the method on top of the stack
Return(v) ==
    LET rest == Pop
    IN [rest EXCEPT ![Len(rest)] = Resume(rest[Len(rest)], v)]

-----------------------------------------------------------------------------
(* The steps of a parse call *)

\* the cursor, the generator and LEXER after a consume that gave c
Moved(c, type) ==
    /\ cur' = c.cur
    /\ attemptedTypes' = c.attemptedTypes
    /\ gen' = c.gen
    /\ lastIndex' = c.lastIndex
    /\ tokens' = tokens \o c.toks
    /\ passed' = IF c.matched THEN <<>>
                 ELSE IF \E k \in DOMAIN passed : passed[k] = type THEN passed
                 ELSE Append(passed, type)

\* the parse call on s ends with o
Finish(s, o) ==
    /\ stack' = <<>>
    /\ outcome' = o
    /\ seen' = IF s = target THEN seen \cup {o} ELSE seen
    /\ prevKinds' = prevKinds \cup {o.kind}

\* the parse call goes on with the frames stk
Continue(stk) ==
    /\ stack' = stk
    /\ UNCHANGED <<outcome, seen, prevKinds>>

\* a consume that did not throw: the frames after a match and after no match;
\* an Error thrown by the generator inside advance() ends the call
Consumed(c, type, onMatch, onMiss) ==
    /\ Moved(c, type)
    /\ IF c.threw THEN Finish(code, Thrown("LexError", c.msg))
       ELSE IF c.matched THEN Continue(onMatch)
       ELSE Continue(onMiss)
    /\ UNCHANGED <<code, target, entryLastIndex, inputs, form, streams>>

\* expect(type), lines 99-103, with what consume gave (c), then `return v`
expect(c, type, v) ==
    /\ Moved(c, type)
    /\ IF c.threw THEN Finish(code, Thrown("LexError", c.msg))
       ELSE IF c.matched
       THEN IF Len(stack) = 1 THEN Finish(code, Returned(v)) ELSE Continue(Return(v))
       ELSE Finish(code, Thrown("UnexpectedToken",
                                UnexpectedTokenMsg(c.attemptedTypes, c.cur)))
    /\ UNCHANGED <<code, target, entryLastIndex, inputs, form, streams>>

NoTarget == <<"no target">>

\* lines 2-4 and 71-78: parse(s) makes the generator and the Parser, whose
\* constructor advances to the first token (a), and enters toplevel()
parse_new(s, a) ==
    /\ code' = s
    /\ entryLastIndex' = lastIndex
    /\ gen' = a.gen
    /\ lastIndex' = a.lastIndex
    /\ cur' = a.cur
    /\ attemptedTypes' = a.attemptedTypes
    /\ tokens' = a.toks
    /\ passed' = <<>>
    /\ IF a.threw THEN Finish(s, Thrown("LexError", a.msg))
       ELSE /\ stack' = toplevel(<<>>)
            /\ outcome' = NoOutcome
            /\ UNCHANGED <<seen, prevKinds>>
    /\ UNCHANGED <<target, inputs, form, streams>>
parse(s) ==
    /\ stack = <<>>
    /\ s \in inputs
    /\ parse_new(s, advance(NewGen, s, lastIndex, Undefined, <<>>))

\* line 117-118: this.expect('eof'); return tm
toplevel_eof ==
    /\ At("toplevel", 117)
    /\ expect(consume("eof"), "eof", Top.tm)

\* line 126: if (this.consume('plus')) tm = ['+', tm, this.summand()]
sum_plus ==
    /\ At("sum", 126)
    /\ Consumed(consume("plus"), "plus",
                summand(SetTop([Top EXCEPT !.line = 127])),
                SetTop([Top EXCEPT !.line = 129]))

\* lines 129-136: else if (this.consume('minus')) ...; else break; return tm
sum_minus ==
    /\ At("sum", 129)
    /\ Consumed(consume("minus"), "minus",
                summand(SetTop([Top EXCEPT !.line = 130])),
                Return(Top.tm))

\* line 141: if (this.consume('times')) tm = ['*', tm, this.factor()]
summand_times ==
    /\ At("summand", 141)
    /\ Consumed(consume("times"), "times",
                factor(SetTop([Top EXCEPT !.line = 142])),
                SetTop([Top EXCEPT !.line = 144]))

\* lines 144-151: else if (this.consume('divided')) ...; else break; return tm
summand_divided ==
    /\ At("summand", 144)
    /\ Consumed(consume("divided"), "divided",
                factor(SetTop([Top EXCEPT !.line = 145])),
                Return(Top.tm))

\* lines 154-155: var tm = this.consume('value')
factor_value_got(c) ==
    Consumed(c, "value",
             SetTop([Top EXCEPT !.line = 157, !.name = c.tok.text]),
             SetTop([Top EXCEPT !.line = 169]))
factor_value ==
    /\ At("factor", 154)
    /\ factor_value_got(consume("value"))

\* lines 157-167: a value followed by '(' is a call, whose name is tested
\* after the '(' has been consumed; a value alone is a leaf
factor_call_got(c) ==
    /\ Moved(c, "lparen")
    /\ IF c.threw THEN Finish(code, Thrown("LexError", c.msg))
       ELSE IF ~c.matched THEN Continue(Return(Leaf(Top.name)))
       ELSE IF ~FUNCTION_NAME(Top.name)
       THEN Finish(code, Thrown("NameError", NameErrorMsg(Top.name)))
       ELSE Continue(arglist(SetTop([Top EXCEPT !.line = 162])))
    /\ UNCHANGED <<code, target, entryLastIndex, inputs, form, streams>>
factor_call ==
    /\ At("factor", 157)
    /\ factor_call_got(consume("lparen"))

\* lines 163-165: this.expect('rparen'); args.splice(0, 0, name); return args
factor_call_rparen ==
    /\ At("factor", 163)
    /\ expect(consume("rparen"), "rparen", Node(Top.name, Top.tm.args))

\* lines 169-172: tm = this.consume('quoted')
factor_quoted_got(c) ==
    Consumed(c, "quoted",
             Return(Leaf(StripQuotes(c.tok.text))),
             SetTop([Top EXCEPT !.line = 173]))
factor_quoted ==
    /\ At("factor", 169)
    /\ factor_quoted_got(consume("quoted"))

\* lines 173-178: '(' expr ')', or nothing a factor can start with
factor_paren_got(c) ==
    /\ Moved(c, "lparen")
    /\ IF c.threw THEN Finish(code, Thrown("LexError", c.msg))
       ELSE IF c.matched THEN Continue(expr(SetTop([Top EXCEPT !.line = 174])))
       ELSE Finish(code, Thrown("UnexpectedToken",
                                UnexpectedTokenMsg(c.attemptedTypes, c.cur)))
    /\ UNCHANGED <<code, target, entryLastIndex, inputs, form, streams>>
factor_paren ==
    /\ At("factor", 173)
    /\ factor_paren_got(consume("lparen"))

\* lines 175-176: this.expect('rparen'); return tm
factor_paren_rparen ==
    /\ At("factor", 175)
    /\ expect(consume("rparen"), "rparen", Top.tm)

\* lines 182-185: while (this.consume('comma')) tm.push(this.consume(expr));
\* the argument `expr` is an identifier that is bound nowhere, so evaluating
\* it throws a ReferenceError before consume is called
arglist_comma_got(c) ==
    /\ Moved(c, "comma")
    /\ IF c.threw THEN Finish(code, Thrown("LexError", c.msg))
       ELSE IF c.matched
       THEN Finish(code, Thrown("ReferenceError", <<"expr is not defined">>))
       ELSE Continue(Return(Top.tm))
    /\ UNCHANGED <<code, target, entryLastIndex, inputs, form, streams>>
arglist_comma ==
    /\ At("arglist", 182)
    /\ arglist_comma_got(consume("comma"))

-----------------------------------------------------------------------------
(* Inputs.  An input is written from a form: a sequence of items (leaves,  *)
(* operators with a space on each side, parentheses), a call of a name on  *)
(* argument item sequences, or a raw string taken as it is.                *)

MaxLen == 3
MaxLeaves == 3
MaxArgs == 2
MaxStreamLen == 2

Alphabet == {"1", "a", "-", "(", ")", "+", ",", " ", Quote, "$", "."}

Strings(n) == UNION {[1..k -> Alphabet] : k \in 0..n}

LeafItem(src, val) == [k |-> "leaf", src |-> src, val |-> val]
OpItem(op) == [k |-> "op", src |-> <<op>>, val |-> <<op>>]
LpItem == [k |-> "lp", src |-> <<"(">>, val |-> <<>>]
RpItem == [k |-> "rp", src |-> <<")">>, val |-> <<>>]
RawItem(s) == [k |-> "raw", src |-> s, val |-> s]

RECURSIVE RenderItems(_)
RenderItems(items) ==
    IF items = <<>> THEN <<>>
    ELSE LET it == Head(items)
         IN (IF it.k = "op" THEN <<" ">> \o it.src \o <<" ">> ELSE it.src)
            \o RenderItems(Tail(items))

RECURSIVE RenderArgs(_)
RenderArgs(parts) ==
    IF Len(parts) = 1 THEN RenderItems(parts[1])
    ELSE RenderItems(parts[1]) \o <<",", " ">> \o RenderArgs(Tail(parts))

Render(f) ==
    IF f.kind = "call" THEN f.name \o <<"(">> \o RenderArgs(f.parts) \o <<")">>
    ELSE RenderItems(f.parts[1])

NoForm == [kind |-> "none", name |-> <<>>, parts |-> <<>>]
RawForm(s) == [kind |-> "raw", name |-> <<>>, parts |-> <<<<RawItem(s)>>>>]

LeafPool ==
    <<LeafItem(<<"1">>, <<"1">>),
      LeafItem(<<"A","2">>, <<"A","2">>),
      LeafItem(<<Quote,"x"," ","y",Quote>>, <<"x"," ","y">>),
      LeafItem(<<"2","0","1","8","-","0","1">>, <<"2","0","1","8","-","0","1">>),
      LeafItem(<<"B","1",":","C","3">>, <<"B","1",":","C","3">>)>>
LeafAt(p) == LeafPool[((p - 1) % Len(LeafPool)) + 1]

Ops == {"+", "-", "*", "/"}

\* a run of leaves in parentheses, from leaf r[1] to leaf r[2]; <<0, 0>> is none
Ranges(k) == {<<0, 0>>} \cup {q \in (1..k) \X (1..k) : q[1] <= q[2]}
Repeat(item, n) == [x \in 1..n |-> item]

\* leaves p..k joined by ops, each run of rs in parentheses (nested or apart)
RECURSIVE ChainItems(_, _, _, _)
ChainItems(p, k, ops, rs) ==
    Repeat(LpItem, Cardinality({q \in DOMAIN rs : rs[q][1] = p}))
    \o <<LeafAt(p)>>
    \o Repeat(RpItem, Cardinality({q \in DOMAIN rs : rs[q][2] = p}))
    \o (IF p < k THEN <<OpItem(ops[p])>> \o ChainItems(p + 1, k, ops, rs) ELSE <<>>)

Chains(n) ==
    UNION {{ChainItems(1, k, ops, rs) :
                ops \in [1..(k - 1) -> Ops], rs \in Ranges(k) \X Ranges(k)} :
           k \in 1..n}

ChainForms == {[kind |-> "chain", name |-> <<>>, parts |-> <<c>>] : c \in Chains(MaxLeaves)}

ArgChains ==
    {<<LeafAt(2)>>, <<LeafAt(5)>>, <<LeafAt(1), OpItem("+"), LeafAt(2)>>}
Names == {<<"f">>, <<"s","u","m">>}
CallForms ==
    UNION {{[kind |-> "call", name |-> nm, parts |-> a] :
                nm \in Names, a \in [1..n -> ArgChains]} : n \in 1..MaxArgs}

DecimalLeaf == LeafItem(<<"6",".","0","2","e","2","3">>, <<"6",".","0","2","e","2","3">>)
DecimalForms ==
    {[kind |-> "decimal", name |-> <<>>, parts |-> <<c>>] :
        c \in {<<DecimalLeaf>>,
               <<LeafItem(<<"A","1">>, <<"A","1">>), OpItem("*"), DecimalLeaf>>}}

ExampleStrings ==
    {<<"s","u","m","(","A","1",","," ","B","2",")">>,
        <<"1","a","2","(","x",")">>,
        <<"1","a","2","(","$",")">>,
        <<"1"," ","1","a","2","(","x",")">>,
        <<"1"," ","$"," ","2">>,
        <<"-","5">>,
        <<"1"," ","+"," ","-","5">>,
        <<"1"," ","+">>,
        <<"\"","h","e","l","l","o","\"">>,
        <<"1"," ","+"," ","2"," ","*"," ","3">>,
        <<"1"," ","-"," ","2"," ","-"," ","3">>,
        <<"(","1"," ","+"," ","2",")"," ","*"," ","3">>,
        <<"s","u","m","(","A","1",":","B","2",","," ","C","3",":","D","4",")">>,
        <<"f","(",")">>,
        <<"f","(","1"," ",","," ","2",")">>,
        <<"2"," ","*"," ","(","3">>,
        <<"\"","a","\""," ","b">>}
Examples == {RawForm(s) : s \in ExampleStrings}

Forms ==
    {RawForm(s) : s \in Strings(MaxLen)} \cup Examples \cup ChainForms
    \cup CallForms \cup DecimalForms

\* the strings of the repeated-call runs: trees, lex errors, parse errors that
\* leave the token stream unfinished, a call with and without a comma
DetInputs ==
    {<<"1"," ","+"," ","2"," ","*"," ","3">>,
        <<"(","1"," ","-"," ","2",")"," ","/"," ","3">>,
        <<"f","(","1",")">>,
        <<"f","(","1",","," ","2",")">>,
        <<"\"","x","\"">>,
        <<"1"," ","1">>,
        <<"1"," ","$"," ","2">>,
        <<"1"," ","+">>,
        <<"1","a","(","x",")">>,
        <<"a","b"," ","c","d","(">>,
        <<>>,
        <<"(","1"," ","$">>}

StreamInputs == UNION {[1..k -> {"1", " ", "$"}] : k \in 0..MaxStreamLen}

-----------------------------------------------------------------------------
(* Token streams used directly: tokenize is exported (line 189) *)

NewStream(s) == [code |-> s, gen |-> NewGen, out |-> <<>>]

\* what one next() gives its caller
Result(n) == [kind |-> n.kind, token |-> n.token, msg |-> n.msg]

next_got(i, n) ==
    /\ streams' = [streams EXCEPT ![i] = [code |-> streams[i].code,
                                          gen |-> n.gen,
                                          out |-> Append(streams[i].out, Result(n))]]
    /\ lastIndex' = n.lastIndex

\* next() on stream i, until the stream has ended
next(i) ==
    /\ streams[i].gen.state # "closed"
    /\ next_got(i, tokenize_next(streams[i].gen, streams[i].code, lastIndex))
    /\ UNCHANGED <<code, gen, cur, attemptedTypes, stack, outcome, tokens, passed,
                   target, seen, prevKinds, entryLastIndex, inputs, form>>

-----------------------------------------------------------------------------
(* Specifications *)

Idle ==
    /\ lastIndex = 0
    /\ code = <<>>
    /\ gen = NewGen
    /\ cur = Undefined
    /\ attemptedTypes = <<>>
    /\ stack = <<>>
    /\ outcome = NoOutcome
    /\ tokens = <<>>
    /\ passed = <<>>
    /\ seen = {}
    /\ prevKinds = {}
    /\ entryLastIndex = 0

\* one input, written from a form; parse may be called on it again and again
Init ==
    /\ Idle
    /\ form \in Forms
    /\ inputs = {Render(form)}
    /\ target = NoTarget
    /\ streams = <<>>

\* parse called again and again on several strings, the outcomes on one of
\* them collected
InitDet ==
    /\ Idle
    /\ form = NoForm
    /\ inputs = DetInputs
    /\ target \in DetInputs
    /\ streams = <<>>

\* two token streams, advanced by their caller in any order
InitStreams ==
    /\ Idle
    /\ form = NoForm
    /\ inputs = {}
    /\ target = NoTarget
    /\ streams \in [1..2 -> {NewStream(s) : s \in StreamInputs}]

Call == \E s \in inputs : parse(s)

Next ==
    \/ Call
    \/ toplevel_eof
    \/ sum_plus
    \/ sum_minus
    \/ summand_times
    \/ summand_divided
    \/ factor_value
    \/ factor_call
    \/ factor_call_rparen
    \/ factor_quoted
    \/ factor_paren
    \/ factor_paren_rparen
    \/ arglist_comma

NextStreams == \E i \in 1..2 : next(i)

Spec == Init /\ [][Next]_vars
SpecDet == InitDet /\ [][Next]_vars
SpecStreams == InitStreams /\ [][NextStreams]_vars

-----------------------------------------------------------------------------
(* Properties *)

\* a parse call has ended and none is running
Finished == stack = <<>> /\ outcome.kind # "none"
\* a parse call is running: the Parser exists and a grammar method executes
Live == stack # <<>>

RECURSIVE Concat(_)
Concat(toks) == IF toks = <<>> THEN <<>> ELSE Head(toks).text \o Concat(Tail(toks))

IsPrefix(a, b) == Len(a) <= Len(b) /\ a = SubSeq(b, 1, Len(a))

\* sub occurs in msg as a run of consecutive elements
Contains(msg, sub) ==
    \E i \in 0..(Len(msg) - Len(sub)) : SubSeq(msg, i + 1, i + Len(sub)) = sub

DigitOf(n) == <<"0","1","2","3","4","5","6","7","8","9">>[n + 1]
\* the decimal numeral of n < 100
Decimal(n) == IF n < 10 THEN <<DigitOf(n)>> ELSE <<DigitOf(n \div 10), DigitOf(n % 10)>>

LettersOnly(text) == text # <<>> /\ \A k \in DOMAIN text : text[k] \in Letter

\* the tree the two-tier grammar gives an item sequence: split at the last
\* + or - outside parentheses, else at the last * or / outside parentheses,
\* else a leaf, else drop the enclosing parentheses
Depth(items, i) ==
    Cardinality({j \in 1..(i - 1) : items[j].k = "lp"})
    - Cardinality({j \in 1..(i - 1) : items[j].k = "rp"})
TopOps(items, S) ==
    {i \in DOMAIN items : items[i].k = "op" /\ items[i].val[1] \in S /\ Depth(items, i) = 0}
Max(S) == CHOOSE x \in S : \A y \in S : y <= x
RECURSIVE RefTree(_)
RefTree(items) ==
    LET add == TopOps(items, {"+", "-"})
        mul == TopOps(items, {"*", "/"})
        j == IF add # {} THEN Max(add) ELSE Max(mul)
    IN IF add # {} \/ mul # {}
       THEN Node(items[j].val, <<RefTree(SubSeq(items, 1, j - 1)),
                                 RefTree(SubSeq(items, j + 1, Len(items)))>>)
       ELSE IF Len(items) = 1 THEN Leaf(items[1].val)
       ELSE RefTree(SubSeq(items, 2, Len(items) - 1))

\* what a token stream over s gives when it alone is advanced, from its first
\* next() to the one that ends it
RECURSIVE SoloRun(_, _, _)
SoloRun(g, s, li) ==
    LET n == tokenize_next(g, s, li)
    IN IF n.kind = "yield" THEN <<Result(n)>> \o SoloRun(n.gen, s, n.lastIndex)
       ELSE <<Result(n)>>
Solo(s) == SoloRun(NewGen, s, 0)

\* the tokens of a run that are not whitespace
RECURSIVE Visible(_)
Visible(toks) ==
    IF toks = <<>> THEN <<>>
    ELSE (IF Head(toks).type = "whitespace" THEN <<>> ELSE <<Head(toks)>>)
         \o Visible(Tail(toks))
SoloTokens(s) == Visible([k \in 1..(Len(Solo(s)) - 1) |-> Solo(s)[k].token])

\* C1: the tokens yielded so far, concatenated, are a prefix of the input; the
\* stream ends normally (the lookahead becomes end-of-input) only when they
\* are the whole input, and ends with a lex error otherwise; a tree is
\* returned only for an input the tokens cover.
C1_TokenCoverage ==
    /\ IsPrefix(Concat(tokens), code)
    /\ cur.type = "eof" => Concat(tokens) = code
    /\ gen.state = "closed" => cur.type = "eof" \/ outcome.kind = "LexError"
    /\ outcome.kind = "tree" => Concat(tokens) = code /\ gen.state = "closed"

C1_Witness ==
    /\ Finished
    /\ outcome.kind = "LexError"
    /\ Len(tokens) >= 2
    /\ Concat(tokens) # code

\* C2: a call name(arg1, ..., argn), n >= 1, parses to [name, tree of arg1,
\* ..., tree of argn].
C2_CallTree ==
    (Finished /\ form.kind = "call") =>
        outcome = Returned(Node(form.name,
                                [i \in DOMAIN form.parts |-> RefTree(form.parts[i])]))

\* C3: a chain of leaves joined by operators with a space on each side, with
\* or without parentheses, parses to the tree of the two-tier grammar.
C3_Precedence ==
    /\ (Finished /\ form.kind = "chain") =>
           outcome = Returned(RefTree(form.parts[1]))
    /\ (Finished /\ code = <<"1"," ","+"," ","2"," ","*"," ","3">>) =>
           outcome = Returned(Node(<<"+">>, <<Leaf(<<"1">>),
                              Node(<<"*">>, <<Leaf(<<"2">>), Leaf(<<"3">>)>>)>>))
    /\ (Finished /\ code = <<"1"," ","-"," ","2"," ","-"," ","3">>) =>
           outcome = Returned(Node(<<"-">>, <<Node(<<"-">>, <<Leaf(<<"1">>), Leaf(<<"2">>)>>),
                              Leaf(<<"3">>)>>))
    /\ (Finished /\ code = <<"(","1"," ","+"," ","2",")"," ","*"," ","3">>) =>
           outcome = Returned(Node(<<"*">>, <<Node(<<"+">>, <<Leaf(<<"1">>), Leaf(<<"2">>)>>),
                              Leaf(<<"3">>)>>))

C3_Witness ==
    /\ Finished
    /\ form.kind = "chain"
    /\ form.parts[1] = <<LpItem, LpItem, LeafAt(1), OpItem("-"), LeafAt(2), RpItem,
                         OpItem("/"), LeafAt(3), RpItem>>
    /\ outcome = Returned(Node(<<"/">>, <<Node(<<"-">>, <<Leaf(<<"1">>), Leaf(<<"A","2">>)>>),
                          Leaf(<<"x"," ","y">>)>>))

\* C4: every parse call on a string has the same outcome, whatever calls
\* went before it.
C4_Deterministic == Cardinality(seen) <= 1

C4_Witness ==
    /\ Finished
    /\ code = target
    /\ entryLastIndex # 0
    /\ {"tree", "LexError", "UnexpectedToken"} \subseteq prevKinds
    /\ seen # {}

C6_CharAndOffset ==
    (Finished /\ outcome.kind = "LexError") =>
        /\ Contains(outcome.msg, CharAt(code, Len(Concat(tokens))))
        /\ Contains(outcome.msg, Decimal(Len(Concat(tokens))))

\* C6 (amended): a lex error identifies the offending character, the first
\* one no token covers, which no token can start at that place; it does not
\* give the offset.
C6_OffendingChar ==
    (Finished /\ outcome.kind = "LexError") =>
        /\ Len(Concat(tokens)) < Len(code)
        /\ \/ outcome.msg = <<"Unexpected token ", code[Len(Concat(tokens)) + 1]>>
           \/ outcome.msg = <<"Unexpected token end ", code[Len(Concat(tokens)) + 1]>>
        /\ code[Len(Concat(tokens)) + 1]
               \notin ValueChar \cup Space \cup {"(", ")", "+", "*", "/", ","}
        /\ ~Contains(outcome.msg, Decimal(Len(Concat(tokens))))

C6_Witness ==
    /\ Finished
    /\ code = <<"1"," ","$"," ","2">>
    /\ Len(Concat(tokens)) = 2
    /\ outcome = Thrown("LexError", <<"Unexpected token ", "$">>)

\* a hyphen followed by letters and digits only
NegativeLooking(s) ==
    /\ Len(s) >= 2
    /\ s[1] = "-"
    /\ \A k \in 2..Len(s) : s[k] \in Letter \cup Digit

\* C7 (as stated): a hyphen directly followed by letters or digits at a token
\* start is absorbed into one bare-value token, so a negative-looking literal
\* parses to a leaf.
C7_NegativeLeaf ==
    (Finished /\ NegativeLooking(code)) =>
        /\ tokens = <<[type |-> "value", text |-> code]>>
        /\ outcome = Returned(Leaf(code))

\* C7 (amended): a hyphen at a token start is a minus token of its own; a
\* bare-value token holds a hyphen only after its first character, and a
\* hyphen right after a bare-value character is never a token of its own; so
\* a negative-looking literal fails to parse, '-' being the unexpected token.
C7_HyphenIsMinus ==
    /\ \A k \in DOMAIN tokens :
          /\ tokens[k].text[1] = "-" => tokens[k] = [type |-> "minus", text |-> <<"-">>]
          /\ (tokens[k].type = "minus" /\ k > 1) => tokens[k - 1].type # "value"
    /\ (Finished /\ NegativeLooking(code)) =>
          /\ outcome.kind = "UnexpectedToken"
          /\ outcome.msg = <<"Expected one of: ", "a literal value", ", ",
                             "a quoted string", ", ", "(", "; got ", "'", "-", "'">>

C7_Witness ==
    /\ Finished
    /\ code = <<"-", "1">>
    /\ outcome.kind = "UnexpectedToken"
    /\ cur = [type |-> "minus", text |-> <<"-">>]

\* C8: a literal number with a decimal point is one bare-value token and
\* parses to a leaf, alone or as an operand.
C8_DecimalLiteral ==
    (Finished /\ form.kind = "decimal") =>
        outcome = Returned(RefTree(form.parts[1]))

\* C9: a token stream advanced in any interleaving with another gives what
\* it gives when it is advanced alone.
C9_StreamsIndependent ==
    \A i \in DOMAIN streams : IsPrefix(streams[i].out, Solo(streams[i].code))

\* C10: while a parse runs, the lookahead is never whitespace, the attempted
\* kinds never hold the lookahead's kind and are exactly the kinds given to
\* consume/expect since the lookahead last advanced (none right after an
\* advance); an unexpected-token error lists exactly those kinds against the
\* token found or the end-of-input marker.
C10_AttemptedKinds ==
    /\ Live =>
          /\ cur.type \notin {"whitespace", "undefined"}
          /\ \A k \in DOMAIN attemptedTypes : attemptedTypes[k] # cur.type
          /\ attemptedTypes = passed
    /\ (Finished /\ outcome.kind = "UnexpectedToken") =>
          /\ passed # <<>>
          /\ outcome.msg =
                <<"Expected one of: ">>
                \o Join([k \in DOMAIN passed |-> TOKEN_TYPES[passed[k]]])
                \o <<"; got ">>
                \o (IF cur.type = "eof" THEN <<"[end of string]">>
                    ELSE <<"'">> \o cur.text \o <<"'">>)

C10_Witness ==
    /\ Finished
    /\ code = <<"1"," ","+">>
    /\ passed = <<"value", "quoted", "lparen">>
    /\ cur.type = "eof"
    /\ outcome = Thrown("UnexpectedToken",
                        <<"Expected one of: ", "a literal value", ", ", "a quoted string",
                          ", ", "(", "; got ", "[end of string]">>)

====
